---- MODULE Spec2Model ----
(***************************************************************************)
(* Model of media/base/yuv_scale.cc: the two frame scalers                 *)
(* (ScaleYV12ToRGB32, ScaleYV16ToRGB32), the row converters                *)
(* (ScaleYV12ToRGB32Row, HalfYV12ToRGB32Row) and the saturation table      *)
(* (g_rgb_clip_table, clip).                                               *)
(*                                                                         *)
(* Memory is modelled as it is laid out: each plane is a flat array of     *)
(* bytes addressed by  row * pitch + column, pointers are integer offsets  *)
(* into it, and the destination is a flat byte array addressed from        *)
(* rgb_buf.  A read outside an allocation (or of a padding byte) is not    *)
(* defined by the program; it yields the byte `fill`, an unknown value     *)
(* fixed when the call starts, and is visible in `reads` as an address     *)
(* outside the plane.                                                      *)
(*                                                                         *)
(* C arithmetic: `/` truncates toward zero (CDiv), `>>` on a negative int  *)
(* is the arithmetic shift every supported compiler emits (Shr: floor),    *)
(* `& 15` on a two's complement int is the non-negative residue.           *)
(***************************************************************************)
EXTENDS Integers, Sequences, FiniteSets, TLC

VARIABLES
  pc,             \* position of the call: entry, check, loop, done, dcheck_failed
  fmt,            \* "YV12" (ScaleYV12ToRGB32) or "YV16" (ScaleYV16ToRGB32)
  view_rotate,    \* the Rotate argument
  frame,          \* the caller's frame: [w, h] of the luma plane
  width,          \* the local `width`  (negated by the right-to-left rebase)
  height,         \* the local `height` (negated by the bottom-up rebase)
  scaled_width,
  scaled_height,
  y_pitch,
  uv_pitch,
  rgb_pitch,
  y_buf,          \* offsets of the plane pointers into their planes
  u_buf,
  v_buf,
  y_plane,        \* the allocated bytes of each plane: address -> byte
  u_plane,
  v_plane,
  fill,           \* content of every byte the caller did not set
  rgb,            \* destination memory: address relative to rgb_buf -> byte
  wcount,         \* number of stores to each destination byte
  task,           \* one entry per iteration y of the (parallel) row loop
  reads,          \* every source read: <<tag, y, x, row pointer, index>>
  half_out,       \* row harness: pixels produced by HalfYV12ToRGB32Row
  scale_out,      \* row harness: pixels produced by ScaleYV12ToRGB32Row
  clip_in,        \* clip harness: the argument
  clip_out,       \* clip harness: the result (or NoValue)
  ping_url_,      \* PingManager::ping_url_, set by the constructor
  ping_senders    \* the PingSender objects created with new, by identity

vars == <<pc, fmt, view_rotate, frame, width, height, scaled_width,
          scaled_height, y_pitch, uv_pitch, rgb_pitch, y_buf, u_buf, v_buf,
          y_plane, u_plane, v_plane, fill, rgb, wcount, task, reads,
          half_out, scale_out, clip_in, clip_out, ping_url_, ping_senders>>

callVars == <<fmt, view_rotate, frame, scaled_width, scaled_height,
              y_pitch, uv_pitch, rgb_pitch, y_plane, u_plane, v_plane, fill>>

pingVars == <<ping_url_, ping_senders>>

harnessVars == <<half_out, scale_out, clip_in, clip_out, pingVars>>

(***************************************************************************)
(* Bounds of the checked instances.                                        *)
(***************************************************************************)
MaxWidth == 3
MaxHeight == 3
MaxScaledWidth == 2
MaxScaledHeight == 2
MaxPad == 1
MaxRowWidth == 5

NoValue == 0 - 1

(***************************************************************************)
(* C integer arithmetic.                                                   *)
(***************************************************************************)
CDiv(a, b) == IF a >= 0 THEN a \div b ELSE -((-a) \div b)

Shr(a, n) == a \div (2 ^ n)

Abs(a) == IF a >= 0 THEN a ELSE -a

CeilHalf(a) == (a + 1) \div 2

(***************************************************************************)
(* The Rotate values and the three groups the scalers test for.            *)
(***************************************************************************)
Rotate == {"ROTATE_0", "ROTATE_90", "ROTATE_180", "ROTATE_270",
           "MIRROR_ROTATE_0", "MIRROR_ROTATE_90", "MIRROR_ROTATE_180",
           "MIRROR_ROTATE_270"}

StartsAtRight(r) == r \in {"ROTATE_180", "ROTATE_270", "MIRROR_ROTATE_0",
                           "MIRROR_ROTATE_90"}

StartsAtBottom(r) == r \in {"ROTATE_90", "ROTATE_180", "MIRROR_ROTATE_90",
                            "MIRROR_ROTATE_180"}

Implemented(r) == r \in {"ROTATE_0", "ROTATE_180", "MIRROR_ROTATE_0",
                         "MIRROR_ROTATE_180"}

(***************************************************************************)
(* The saturation table and clip.                                          *)
(***************************************************************************)
kClipTableSize == 256
kClipOverflow == 128

\* The 512 initialisers, in order (TLA+ tuples are indexed from 1).
g_rgb_clip_table ==
  <<0, 0, 0, 0, 0, 0, 0, 0, 0, 0, 0, 0, 0, 0, 0, 0,
    0, 0, 0, 0, 0, 0, 0, 0, 0, 0, 0, 0, 0, 0, 0, 0,
    0, 0, 0, 0, 0, 0, 0, 0, 0, 0, 0, 0, 0, 0, 0, 0,
    0, 0, 0, 0, 0, 0, 0, 0, 0, 0, 0, 0, 0, 0, 0, 0,
    0, 0, 0, 0, 0, 0, 0, 0, 0, 0, 0, 0, 0, 0, 0, 0,
    0, 0, 0, 0, 0, 0, 0, 0, 0, 0, 0, 0, 0, 0, 0, 0,
    0, 0, 0, 0, 0, 0, 0, 0, 0, 0, 0, 0, 0, 0, 0, 0,
    0, 0, 0, 0, 0, 0, 0, 0, 0, 0, 0, 0, 0, 0, 0, 0,
    0, 1, 2, 3, 4, 5, 6, 7, 8, 9, 10, 11, 12, 13, 14, 15,
    16, 17, 18, 19, 20, 21, 22, 23, 24, 25, 26, 27, 28, 29, 30, 31,
    32, 33, 34, 35, 36, 37, 38, 39, 40, 41, 42, 43, 44, 45, 46, 47,
    48, 49, 50, 51, 52, 53, 54, 55, 56, 57, 58, 59, 60, 61, 62, 63,
    64, 65, 66, 67, 68, 69, 70, 71, 72, 73, 74, 75, 76, 77, 78, 79,
    80, 81, 82, 83, 84, 85, 86, 87, 88, 89, 90, 91, 92, 93, 94, 95,
    96, 97, 98, 99, 100, 101, 102, 103, 104, 105, 106, 107, 108, 109, 110, 111,
    112, 113, 114, 115, 116, 117, 118, 119, 120, 121, 122, 123, 124, 125, 126, 127,
    128, 129, 130, 131, 132, 133, 134, 135, 136, 137, 138, 139, 140, 141, 142, 143,
    144, 145, 146, 147, 148, 149, 150, 151, 152, 153, 154, 155, 156, 157, 158, 159,
    160, 161, 162, 163, 164, 165, 166, 167, 168, 169, 170, 171, 172, 173, 174, 175,
    176, 177, 178, 179, 180, 181, 182, 183, 184, 185, 186, 187, 188, 189, 190, 191,
    192, 193, 194, 195, 196, 197, 198, 199, 200, 201, 202, 203, 204, 205, 206, 207,
    208, 209, 210, 211, 212, 213, 214, 215, 216, 217, 218, 219, 220, 221, 222, 223,
    224, 225, 226, 227, 228, 229, 230, 231, 232, 233, 234, 235, 236, 237, 238, 239,
    240, 241, 242, 243, 244, 245, 246, 247, 248, 249, 250, 251, 252, 253, 254, 255,
    255, 255, 255, 255, 255, 255, 255, 255, 255, 255, 255, 255, 255, 255, 255, 255,
    255, 255, 255, 255, 255, 255, 255, 255, 255, 255, 255, 255, 255, 255, 255, 255,
    255, 255, 255, 255, 255, 255, 255, 255, 255, 255, 255, 255, 255, 255, 255, 255,
    255, 255, 255, 255, 255, 255, 255, 255, 255, 255, 255, 255, 255, 255, 255, 255,
    255, 255, 255, 255, 255, 255, 255, 255, 255, 255, 255, 255, 255, 255, 255, 255,
    255, 255, 255, 255, 255, 255, 255, 255, 255, 255, 255, 255, 255, 255, 255, 255,
    255, 255, 255, 255, 255, 255, 255, 255, 255, 255, 255, 255, 255, 255, 255, 255,
    255, 255, 255, 255, 255, 255, 255, 255, 255, 255, 255, 255, 255, 255, 255, 255>>

\* Mutant: the index rounds to the nearest integer instead of truncating.
ClipIndexRounding(value) == Shr(value + 128, 8) + kClipOverflow

ClipIndex(value) == Shr(value, 8) + kClipOverflow

InTable(i) == i >= 0 /\ i < kClipOverflow + kClipTableSize + kClipOverflow

clip(value) ==
  IF InTable(ClipIndex(value)) THEN g_rgb_clip_table[ClipIndex(value) + 1]
  ELSE fill

(***************************************************************************)
(* Source memory.                                                          *)
(***************************************************************************)
ChromaWidth(w) == CeilHalf(w)

ChromaHeight(f, h) == IF f = "YV12" THEN CeilHalf(h) ELSE h

ReadY(a) == IF a \in DOMAIN y_plane THEN y_plane[a] ELSE fill

ReadU(a) == IF a \in DOMAIN u_plane THEN u_plane[a] ELSE fill

ReadV(a) == IF a \in DOMAIN v_plane THEN v_plane[a] ELSE fill

(***************************************************************************)
(* The colour transform shared by the row converters.                      *)
(***************************************************************************)
ChromaB(u) == 516 * (u - 128) + 128

ChromaG(u, v) == (0 - 100) * (u - 128) - 208 * (v - 128) + 128

ChromaR(v) == 409 * (v - 128) + 128

Luma298(y0) == (y0 - 16) * 298 + 128

\* Mutant: the store without `| 0xff000000`.
PixelNoAlpha(y0, u, v) ==
  LET sb == Luma298(y0) + ChromaB(u)
      sg == Luma298(y0) + ChromaG(u, v)
      sr == Luma298(y0) + ChromaR(v)
  IN [sum   |-> <<sb, sg, sr>>,
      index |-> <<ClipIndex(sb), ClipIndex(sg), ClipIndex(sr)>>,
      bytes |-> <<clip(sb), clip(sg), clip(sr), 0>>]

\* The three sums handed to clip and the four bytes stored, low byte first.
Pixel(y0, u, v) ==
  LET sb == Luma298(y0) + ChromaB(u)
      sg == Luma298(y0) + ChromaG(u, v)
      sr == Luma298(y0) + ChromaR(v)
  IN [sum   |-> <<sb, sg, sr>>,
      index |-> <<ClipIndex(sb), ClipIndex(sg), ClipIndex(sr)>>,
      bytes |-> <<clip(sb), clip(sg), clip(sr), 255>>]

(***************************************************************************)
(* ScaleYV12ToRGB32Row: destination column x of one row.                   *)
(***************************************************************************)
\* Mutant: the step rounded up.
ScaledDxRoundUp(w, sw) == CDiv(w * 16 + sw - 1, sw)

ScaledDx(w, sw) == CDiv(w * 16, sw)

ScaledX(w, sw, x) == x * ScaledDx(w, sw)

Blend(y0, y1, frac) ==
  CASE frac = 1 -> Shr(y0 + y0 + y0 + y1, 2)
    [] frac = 2 -> Shr(y0 + y1, 1)
    [] frac = 3 -> Shr(y0 + y1 + y1 + y1, 2)
    [] OTHER    -> y0

ScaleReads(w, sw, x) ==
  LET sx == ScaledX(w, sw, x)
  IN [u |-> Shr(sx, 5), v |-> Shr(sx, 5), y0 |-> Shr(sx, 4),
      y1 |-> Shr(sx, 4) + 1]

ScalePixel(y_ptr, u_ptr, v_ptr, w, sw, x) ==
  LET sx == ScaledX(w, sw, x)
      i  == ScaleReads(w, sw, x)
      y0 == ReadY(y_ptr + i.y0)
      y1 == ReadY(y_ptr + i.y1)
  IN Pixel(Blend(y0, y1, Shr(sx % 16, 2)),
           ReadU(u_ptr + i.u), ReadV(v_ptr + i.v))

(***************************************************************************)
(* HalfYV12ToRGB32Row: destination column x of one row.                    *)
(***************************************************************************)
HalfReads(x) == [u |-> x, v |-> x, y0 |-> x * 2, y1 |-> x * 2 + 1]

\* Mutant: the second luma sample instead of the average of the pair.
HalfPixelNoAverage(y_ptr, u_ptr, v_ptr, x) ==
  LET i == [u |-> x, v |-> x, y0 |-> x * 2, y1 |-> x * 2 + 1]
  IN Pixel(ReadY(y_ptr + i.y1), ReadU(u_ptr + i.u), ReadV(v_ptr + i.v))

HalfPixel(y_ptr, u_ptr, v_ptr, x) ==
  LET i  == HalfReads(x)
      y0 == ReadY(y_ptr + i.y0)
      y1 == ReadY(y_ptr + i.y1)
  IN Pixel(Shr(y0 + y1, 1), ReadU(u_ptr + i.u), ReadV(v_ptr + i.v))

(***************************************************************************)
(* ConvertYV12ToRGB32Row is declared here and defined elsewhere; it is the *)
(* identity-ratio conversion: the general converter with step 16.          *)
(***************************************************************************)
ConvertReads(w, x) == ScaleReads(w, w, x)

ConvertPixel(y_ptr, u_ptr, v_ptr, w, x) ==
  ScalePixel(y_ptr, u_ptr, v_ptr, w, w, x)

(***************************************************************************)
(* The head of a frame scaler: the two rebasing blocks.  `f` is the        *)
(* scaler, `rot` the rotation, w and h the width and height arguments;     *)
(* the plane pointers arrive as offset 0.                                  *)
(***************************************************************************)
Rebased(f, rot, w, h, ypitch, uvpitch) ==
  LET right  == StartsAtRight(rot)
      bottom == StartsAtBottom(rot)
      y1 == IF right THEN w - 1 ELSE 0
      u1 == IF right THEN CDiv(w, 2) - 1 ELSE 0
      uvrows == IF f = "YV12" THEN CDiv(h, 2) - 1 ELSE h - 1
  IN [width  |-> IF right THEN 0 - w ELSE w,
      height |-> IF bottom THEN 0 - h ELSE h,
      y_buf  |-> IF bottom THEN y1 + (h - 1) * ypitch ELSE y1,
      u_buf  |-> IF bottom THEN u1 + uvrows * uvpitch ELSE u1,
      v_buf  |-> IF bottom THEN u1 + uvrows * uvpitch ELSE u1]

(***************************************************************************)
(* One iteration y of the row loop of a frame scaler.                      *)
(***************************************************************************)
\* Mutant: the row index used as a pixel offset, the stride forgotten.
DestPixelNoPitch(y, pitch) == y * 4

DestPixel(y, pitch) == y * pitch

ScaledY(y, h, sh) == CDiv(y * h, sh)

UVRow(f, sy) == IF f = "YV12" THEN CDiv(sy, 2) ELSE sy

Dispatch(f, w, sw) ==
  IF f = "YV12" /\ sw = w THEN "Convert"
  ELSE IF sw = CDiv(w, 2) THEN "Half"
  ELSE "Scale"

\* The locals of iteration y, given the rebased pointers and sizes rb.
RowHead(f, rb, y, sw, sh, ypitch, uvpitch, rgbpitch) ==
  LET sy == ScaledY(y, rb.height, sh)
  IN [st |-> "run", x |-> 0,
      conv |-> Dispatch(f, rb.width, sw),
      scaled_y |-> sy,
      y_ptr |-> rb.y_buf + sy * ypitch,
      u_ptr |-> rb.u_buf + UVRow(f, sy) * uvpitch,
      v_ptr |-> rb.v_buf + UVRow(f, sy) * uvpitch,
      dest_pixel |-> DestPixel(y, rgbpitch)]

RowReads(conv, w, sw, x) ==
  CASE conv = "Convert" -> ConvertReads(sw, x)
    [] conv = "Half"    -> HalfReads(x)
    [] OTHER            -> ScaleReads(w, sw, x)

RowPixel(conv, yp, up, vp, w, sw, x) ==
  CASE conv = "Convert" -> ConvertPixel(yp, up, vp, sw, x)
    [] conv = "Half"    -> HalfPixel(yp, up, vp, x)
    [] OTHER            -> ScalePixel(yp, up, vp, w, sw, x)

\* The store  *reinterpret_cast<uint32*>(rgb_buf) = ...  at byte address a
\* (little-endian: B, G, R, 0xff).
Store(mem, a, bytes) ==
  [b \in DOMAIN mem |->
     IF b >= a /\ b < a + 4 THEN bytes[b - a + 1] ELSE mem[b]]

Count(cnt, a) ==
  [b \in DOMAIN cnt |-> IF b >= a /\ b < a + 4 THEN cnt[b] + 1 ELSE cnt[b]]

IdleTask == [st |-> "idle", x |-> 0, conv |-> "none", scaled_y |-> 0,
             y_ptr |-> 0, u_ptr |-> 0, v_ptr |-> 0, dest_pixel |-> 0]

(***************************************************************************)
(* The frames and calls checked.                                           *)
(***************************************************************************)
YSample(row, col) == (40 + 37 * row + 11 * col) % 256

USample(row, col) == (100 + 43 * row + 17 * col) % 256

VSample(row, col) == (190 - 29 * row - 13 * col) % 256

Sample(plane, row, col) ==
  CASE plane = "y" -> YSample(row, col)
    [] plane = "u" -> USample(row, col)
    [] OTHER       -> VSample(row, col)

Plane(plane, w, h, pitch, pad) ==
  [a \in 0 .. (pitch * h - 1) |->
     IF a % pitch < w THEN Sample(plane, a \div pitch, a % pitch) ELSE pad]

\* The destination strides tried: one pixel too short (rows overlap), exact,
\* and negative with one pixel of padding (rgb_buf is then the row highest
\* in memory).
RgbPitches(sw) == {4 * (sw - 1), 4 * sw, (0 - 4) * (sw + 1)}

\* Destination addresses, relative to rgb_buf: the rows of the call and a
\* margin of one row on either side.
RgbAddrs(sw, sh, pitch) ==
  LET row == IF Abs(pitch) > 4 * sw THEN Abs(pitch) ELSE 4 * sw
  IN IF pitch >= 0 THEN (0 - row) .. (sh * row + row - 1)
     ELSE (0 - sh * row) .. (row + row - 1)

Fills == {0, 255}

InitCall ==
  /\ pc = "entry"
  /\ fmt \in {"YV12", "YV16"}
  /\ view_rotate \in Rotate
  /\ \E w \in 1 .. MaxWidth, h \in 1 .. MaxHeight :
       /\ frame = [w |-> w, h |-> h]
       /\ width = w
       /\ height = h
  /\ scaled_width \in 1 .. MaxScaledWidth
  /\ scaled_height \in 1 .. MaxScaledHeight
  /\ fill \in Fills
  /\ \E pad \in 0 .. MaxPad :
       /\ y_pitch = frame.w + pad
       /\ uv_pitch = ChromaWidth(frame.w) + pad
       /\ y_plane = Plane("y", frame.w, frame.h, y_pitch, fill)
       /\ u_plane = Plane("u", ChromaWidth(frame.w),
                          ChromaHeight(fmt, frame.h), uv_pitch, fill)
       /\ v_plane = Plane("v", ChromaWidth(frame.w),
                          ChromaHeight(fmt, frame.h), uv_pitch, fill)
  /\ rgb_pitch \in RgbPitches(scaled_width)
  /\ y_buf = 0
  /\ u_buf = 0
  /\ v_buf = 0
  /\ rgb = [a \in RgbAddrs(scaled_width, scaled_height, rgb_pitch) |-> fill]
  /\ wcount = [a \in RgbAddrs(scaled_width, scaled_height, rgb_pitch) |-> 0]
  /\ task = [y \in 0 .. (scaled_height - 1) |-> IdleTask]
  /\ reads = {}

\* The update-ping sender (component_updater_ping_manager.cc).  A GURL is
\* its spec and the answer of is_valid(); a PingSender is allocated by new,
\* owns at most one URLFetcher through url_fetcher_, and counts the deletes
\* applied to it.
MaxPings == 3

Senders == 1 .. MaxPings

PingUrls == {[spec |-> "http://ping/service", is_valid |-> TRUE],
             [spec |-> "", is_valid |-> FALSE]}

NoFetcher == [started |-> FALSE, url |-> "", request |-> <<>>]

Unallocated == [st |-> "unallocated", url_fetcher_ |-> NoFetcher, deletes |-> 0]

\* PingSender::PingSender(): url_fetcher_ is a null scoped_ptr.
PingSender == [st |-> "allocated", url_fetcher_ |-> NoFetcher, deletes |-> 0]

\* The update items OnUpdateComplete is called with: status kNoUpdate or
\* kUpdated (the DCHECK of BuildPingEventElement), an error code, and every
\* other optional field zero or empty.
CrxUpdateItems == [status : {"kNoUpdate", "kUpdated"}, error_code : {0, 1}]

InitPingOff ==
  /\ ping_url_ = [spec |-> "", is_valid |-> FALSE]
  /\ ping_senders = [s \in Senders |-> Unallocated]

InitHarnessOff ==
  /\ half_out = <<>>
  /\ scale_out = <<>>
  /\ clip_in = 0
  /\ clip_out = NoValue
  /\ InitPingOff

Init == InitCall /\ InitHarnessOff

(***************************************************************************)
(* The frame scalers, step by step.                                        *)
(***************************************************************************)
\* "Rotations that start at right side of image" and "Rotations that start
\* at bottom of image".
Rebase ==
  /\ pc = "entry"
  /\ LET rb == Rebased(fmt, view_rotate, width, height, y_pitch, uv_pitch)
     IN /\ width' = rb.width
        /\ height' = rb.height
        /\ y_buf' = y_buf + rb.y_buf
        /\ u_buf' = u_buf + rb.u_buf
        /\ v_buf' = v_buf + rb.v_buf
  /\ pc' = "check"
  /\ UNCHANGED <<callVars, rgb, wcount, task, reads, harnessVars>>

\* DCHECK(implemented rotation) in a build that defines _DEBUG: fatal.
DCheckFail ==
  /\ pc = "check"
  /\ ~Implemented(view_rotate)
  /\ pc' = "dcheck_failed"
  /\ UNCHANGED <<callVars, width, height, y_buf, u_buf, v_buf, rgb, wcount,
                 task, reads, harnessVars>>

\* DCHECK that held, or `#define DCHECK(a)` in a build without _DEBUG.
DCheckPass ==
  /\ pc = "check"
  /\ pc' = "loop"
  /\ UNCHANGED <<callVars, width, height, y_buf, u_buf, v_buf, rgb, wcount,
                 task, reads, harnessVars>>

\* The head of iteration y: dest_pixel, scaled_y, the row pointers and the
\* choice of converter.
RowBegin(y) ==
  /\ pc = "loop"
  /\ task[y].st = "idle"
  /\ task' = [task EXCEPT ![y] =
       RowHead(fmt, [width |-> width, height |-> height, y_buf |-> y_buf,
                     u_buf |-> u_buf, v_buf |-> v_buf],
               y, scaled_width, scaled_height, y_pitch, uv_pitch, rgb_pitch)]
  /\ UNCHANGED <<pc, callVars, width, height, y_buf, u_buf, v_buf, rgb,
                 wcount, reads, harnessVars>>

\* One pixel of the row converter running iteration y.
RowStep(y) ==
  /\ pc = "loop"
  /\ task[y].st = "run"
  /\ LET t  == task[y]
         i  == RowReads(t.conv, width, scaled_width, t.x)
         px == RowPixel(t.conv, t.y_ptr, t.u_ptr, t.v_ptr, width,
                        scaled_width, t.x)
         a  == t.dest_pixel + 4 * t.x
     IN /\ reads' = reads \cup {<<"u", y, t.x, t.u_ptr, i.u>>,
                                <<"v", y, t.x, t.v_ptr, i.v>>,
                                <<"y0", y, t.x, t.y_ptr, i.y0>>,
                                <<"y1", y, t.x, t.y_ptr, i.y1>>}
        /\ rgb' = Store(rgb, a, px.bytes)
        /\ wcount' = Count(wcount, a)
        /\ task' = [task EXCEPT ![y].x = t.x + 1,
                                ![y].st = IF t.x + 1 < scaled_width
                                          THEN "run" ELSE "done"]
  /\ UNCHANGED <<pc, callVars, width, height, y_buf, u_buf, v_buf,
                 harnessVars>>

\* The end of the loop: every iteration has finished.
Return ==
  /\ pc = "loop"
  /\ \A y \in DOMAIN task : task[y].st = "done"
  /\ pc' = "done"
  /\ UNCHANGED <<callVars, width, height, y_buf, u_buf, v_buf, rgb, wcount,
                 task, reads, harnessVars>>

Next ==
  \/ Rebase
  \/ DCheckFail
  \/ DCheckPass
  \/ \E y \in DOMAIN task : RowBegin(y)
  \/ \E y \in DOMAIN task : RowStep(y)
  \/ Return

Spec == Init /\ [][Next]_vars


(***************************************************************************)
(* Row harness: both row converters called directly on one row, a pixel    *)
(* at a time.  The row pointers are offset 0 of single-row planes.         *)
(***************************************************************************)
YBases == {0, 16, 128, 235, 255}

YSteps == ((0 - 3) .. 4) \cup {100}

UVBases == {0, 128, 255}

RowPlane(n, base, step) == [a \in 0 .. (n - 1) |-> (base + a * step) % 256]

InitRow ==
  /\ pc = "row"
  /\ width \in 1 .. MaxRowWidth
  /\ scaled_width \in 1 .. MaxRowWidth
  /\ fill \in Fills
  /\ \E yb \in YBases, ys \in YSteps, ub \in UVBases, vb \in UVBases :
       /\ y_plane = RowPlane(width, yb, ys)
       /\ u_plane = RowPlane(ChromaWidth(width), ub, 37)
       /\ v_plane = RowPlane(ChromaWidth(width), vb, 219)
  /\ fmt = "YV12"
  /\ view_rotate = "ROTATE_0"
  /\ frame = [w |-> width, h |-> 1]
  /\ height = 1
  /\ scaled_height = 1
  /\ y_pitch = width
  /\ uv_pitch = ChromaWidth(width)
  /\ rgb_pitch = 4 * scaled_width
  /\ y_buf = 0
  /\ u_buf = 0
  /\ v_buf = 0
  /\ rgb = <<>>
  /\ wcount = <<>>
  /\ task = <<>>
  /\ reads = {}
  /\ InitHarnessOff

frameVars == <<pc, callVars, width, height, y_buf, u_buf, v_buf, rgb, wcount,
               task, reads, pingVars>>

\* ScaleYV12ToRGB32Row(y_buf, u_buf, v_buf, rgb_buf, width, scaled_width):
\* the next iteration x of its loop.
ScaleRowStep ==
  /\ pc = "row"
  /\ Len(scale_out) < scaled_width
  /\ LET x == Len(scale_out)
     IN scale_out' = Append(scale_out,
          [x |-> x, i |-> ScaleReads(width, scaled_width, x),
           frac |-> Shr(ScaledX(width, scaled_width, x) % 16, 2),
           px |-> ScalePixel(0, 0, 0, width, scaled_width, x)])
  /\ UNCHANGED <<frameVars, half_out, clip_in, clip_out>>

\* HalfYV12ToRGB32Row(y_buf, u_buf, v_buf, rgb_buf, scaled_width), called as
\* the frame scalers call it: when scaled_width == width / 2.
HalfRowStep ==
  /\ pc = "row"
  /\ scaled_width = CDiv(width, 2)
  /\ Len(half_out) < scaled_width
  /\ LET x == Len(half_out)
     IN half_out' = Append(half_out,
          [x |-> x, i |-> HalfReads(x),
           px |-> HalfPixel(0, 0, 0, x)])
  /\ UNCHANGED <<frameVars, scale_out, clip_in, clip_out>>

NextRow ==
  \/ ScaleRowStep
  \/ HalfRowStep

SpecRow == InitRow /\ [][NextRow]_vars

(***************************************************************************)
(* Clip harness: clip called on one 8.8 fixed point value, over the range  *)
(* the table covers and one table index beyond it on either side.          *)
(***************************************************************************)
ClipInputs ==
  ((0 - kClipOverflow - 1) * 256) ..
    ((kClipTableSize + kClipOverflow + 1) * 256 - 1)

InitClip ==
  /\ pc = "clip"
  /\ clip_in \in ClipInputs
  /\ clip_out = NoValue
  /\ fill \in Fills
  /\ half_out = <<>>
  /\ scale_out = <<>>
  /\ fmt = "YV12"
  /\ view_rotate = "ROTATE_0"
  /\ frame = [w |-> 1, h |-> 1]
  /\ width = 1
  /\ height = 1
  /\ scaled_width = 1
  /\ scaled_height = 1
  /\ y_pitch = 1
  /\ uv_pitch = 1
  /\ rgb_pitch = 4
  /\ y_buf = 0
  /\ u_buf = 0
  /\ v_buf = 0
  /\ y_plane = <<>>
  /\ u_plane = <<>>
  /\ v_plane = <<>>
  /\ rgb = <<>>
  /\ wcount = <<>>
  /\ task = <<>>
  /\ reads = {}
  /\ InitPingOff

ClipCall ==
  /\ pc = "clip"
  /\ clip_out = NoValue
  /\ clip_out' = clip(clip_in)
  /\ UNCHANGED <<frameVars, half_out, scale_out, clip_in>>

NextClip == ClipCall

SpecClip == InitClip /\ [][NextClip]_vars

(***************************************************************************)
(* The update pings: PingManager::OnUpdateComplete and the PingSender it   *)
(* creates.  The URLFetcher returned by SendProtocolRequest is started; on *)
(* completion it calls OnURLFetchComplete of its delegate once.            *)
(***************************************************************************)
\* PingSender::BuildPingEventElement(item): the attributes of the event
\* element, in order; an attribute whose field is zero is left out.
BuildPingEventElement(item) ==
  <<<<"eventtype", 3>>,
    <<"eventresult", IF item.status = "kUpdated" THEN 1 ELSE 0>>>>
  \o (IF item.error_code # 0 THEN <<<<"errorcode", item.error_code>>>>
      ELSE <<>>)

\* PingSender::BuildPing(item): the app element around the event element.
BuildPing(item) == <<"app", BuildPingEventElement(item)>>

\* SendProtocolRequest(url, request, delegate, getter): a started fetcher.
SendProtocolRequest(url, request) ==
  [started |-> TRUE, url |-> url.spec, request |-> request]

\* PingSender::SendPing(ping_url, getter, item) applied to the sender
\* `sender`; item is not null.
SendPing(sender, ping_url, item) ==
  IF ~ping_url.is_valid
  THEN sender
  ELSE [sender EXCEPT
          !.url_fetcher_ = SendProtocolRequest(ping_url, BuildPing(item))]

\* operator new: the first address not handed out yet.
NewSender ==
  CHOOSE s \in Senders :
    /\ ping_senders[s].st = "unallocated"
    /\ \A r \in Senders : ping_senders[r].st = "unallocated" => s <= r

InitPing ==
  /\ pc = "ping"
  /\ ping_url_ \in PingUrls
  /\ ping_senders = [s \in Senders |-> Unallocated]
  /\ half_out = <<>>
  /\ scale_out = <<>>
  /\ clip_in = 0
  /\ clip_out = NoValue
  /\ fill = 0
  /\ fmt = "YV12"
  /\ view_rotate = "ROTATE_0"
  /\ frame = [w |-> 1, h |-> 1]
  /\ width = 1
  /\ height = 1
  /\ scaled_width = 1
  /\ scaled_height = 1
  /\ y_pitch = 1
  /\ uv_pitch = 1
  /\ rgb_pitch = 4
  /\ y_buf = 0
  /\ u_buf = 0
  /\ v_buf = 0
  /\ y_plane = <<>>
  /\ u_plane = <<>>
  /\ v_plane = <<>>
  /\ rgb = <<>>
  /\ wcount = <<>>
  /\ task = <<>>
  /\ reads = {}

yuvVars == <<pc, callVars, width, height, y_buf, u_buf, v_buf, rgb, wcount,
             task, reads, half_out, scale_out, clip_in, clip_out>>

\* PingManager::OnUpdateComplete(item): new PingSender, then SendPing.
OnUpdateComplete(item) ==
  /\ pc = "ping"
  /\ \E s \in Senders : ping_senders[s].st = "unallocated"
  /\ ping_senders' =
       [ping_senders EXCEPT ![NewSender] = SendPing(PingSender, ping_url_, item)]
  /\ UNCHANGED <<yuvVars, ping_url_>>

\* PingSender::OnURLFetchComplete(source) of sender s, called by the
\* fetcher s owns when the fetch completes: delete this, which destroys
\* url_fetcher_ and with it the fetcher.
OnURLFetchComplete(s) ==
  /\ pc = "ping"
  /\ ping_senders[s].url_fetcher_.started
  /\ ping_senders' =
       [ping_senders EXCEPT ![s] =
          [st |-> "deleted", url_fetcher_ |-> NoFetcher,
           deletes |-> @.deletes + 1]]
  /\ UNCHANGED <<yuvVars, ping_url_>>

NextPing ==
  \/ \E item \in CrxUpdateItems : OnUpdateComplete(item)
  \/ \E s \in Senders : OnURLFetchComplete(s)

\* A started fetch eventually completes.
SpecPing ==
  /\ InitPing
  /\ [][NextPing]_vars
  /\ \A s \in Senders : WF_vars(OnURLFetchComplete(s))

(***************************************************************************)
(* Vocabulary of the properties.                                           *)
(***************************************************************************)
Cols == 0 .. (scaled_width - 1)

Rows == 0 .. (scaled_height - 1)

PitchOk == Abs(rgb_pitch) >= 4 * scaled_width

PixelAddr(x, y) == y * rgb_pitch + 4 * x

DestBytes(x, y) ==
  <<rgb[PixelAddr(x, y)], rgb[PixelAddr(x, y) + 1],
    rgb[PixelAddr(x, y) + 2], rgb[PixelAddr(x, y) + 3]>>

InPixel(a) == \E y \in Rows, x \in Cols : a - PixelAddr(x, y) \in 0 .. 3

Clamp(n) == IF n < 0 THEN 0 ELSE IF n > 255 THEN 255 ELSE n

Min(a, b) == IF a <= b THEN a ELSE b

\* The four bytes the scaler for `fmt` computes for destination pixel
\* (x, y) when called on the same frame and sizes with rotation rot.
CallPixel(rot, x, y) ==
  LET rb == Rebased(fmt, rot, frame.w, frame.h, y_pitch, uv_pitch)
      hd == RowHead(fmt, rb, y, scaled_width, scaled_height, y_pitch,
                    uv_pitch, rgb_pitch)
  IN RowPixel(hd.conv, hd.y_ptr, hd.u_ptr, hd.v_ptr, rb.width,
              scaled_width, x).bytes

\* The destination after n pixels of the loop run in order, y = 0 first.
RECURSIVE SeqPixels(_)
SeqPixels(n) ==
  IF n = 0 THEN [a \in DOMAIN rgb |-> fill]
  ELSE LET y  == (n - 1) \div scaled_width
           x  == (n - 1) % scaled_width
           hd == RowHead(fmt, [width |-> width, height |-> height,
                               y_buf |-> y_buf, u_buf |-> u_buf,
                               v_buf |-> v_buf],
                         y, scaled_width, scaled_height, y_pitch, uv_pitch,
                         rgb_pitch)
       IN Store(SeqPixels(n - 1), hd.dest_pixel + 4 * x,
                RowPixel(hd.conv, hd.y_ptr, hd.u_ptr, hd.v_ptr, width,
                         scaled_width, x).bytes)

SequentialRgb == SeqPixels(scaled_width * scaled_height)

Started(y) == task[y].st # "idle"

(***************************************************************************)
(* C1.  A call with view_rotate in {ROTATE_90, ROTATE_270,                 *)
(* MIRROR_ROTATE_90, MIRROR_ROTATE_270} is rejected: it never enters the   *)
(* row loop, never returns normally, and stores nothing to the output.     *)
(***************************************************************************)
C1_UnimplementedRotationRejected ==
  ~Implemented(view_rotate) =>
     /\ pc \notin {"loop", "done"}
     /\ \A a \in DOMAIN wcount : wcount[a] = 0

(***************************************************************************)
(* C2.  The output of a ROTATE_180 call is the output of the ROTATE_0 call *)
(* on the same inputs with rows and columns reversed:                      *)
(* out180[y][x] = out0[scaled_height-1-y][scaled_width-1-x].               *)
(***************************************************************************)
C2_Rotate180IsReversedRotate0 ==
  (pc = "done" /\ view_rotate = "ROTATE_180" /\ PitchOk) =>
     \A y \in Rows, x \in Cols :
        DestBytes(x, y) =
          CallPixel("ROTATE_0", scaled_width - 1 - x, scaled_height - 1 - y)

(***************************************************************************)
(* C5.  After a call with an implemented rotation and                      *)
(* |rgb_pitch| >= 4 * scaled_width, every byte of the scaled_width *       *)
(* scaled_height destination pixels has been stored exactly once, every    *)
(* alpha byte is 255, and no other byte of the destination was stored to   *)
(* or changed.                                                             *)
(***************************************************************************)
C5_DestinationFullyWritten ==
  (pc = "done" /\ Implemented(view_rotate) /\ PitchOk) =>
     /\ \A a \in DOMAIN rgb :
          IF InPixel(a) THEN wcount[a] = 1
          ELSE wcount[a] = 0 /\ rgb[a] = fill
     /\ \A y \in Rows, x \in Cols : rgb[PixelAddr(x, y) + 3] = 255

C5_Witness ==
  /\ pc = "done"
  /\ view_rotate = "MIRROR_ROTATE_180"
  /\ scaled_width >= 2
  /\ scaled_height >= 2
  /\ Abs(rgb_pitch) > 4 * scaled_width
  /\ \A y \in Rows, x \in Cols : wcount[PixelAddr(x, y)] = 1
  /\ \E a \in DOMAIN rgb : wcount[a] = 0

(***************************************************************************)
(* C7.  For the four implemented rotations the converter of a row depends  *)
(* only on the two widths: half-rate iff 2 * scaled_width = source width,  *)
(* identity-ratio iff scaled_width = source width, general otherwise.      *)
(***************************************************************************)
ClaimedPath ==
  IF 2 * scaled_width = frame.w THEN "half"
  ELSE IF scaled_width = frame.w THEN "identity"
  ELSE "general"

ActualPath(t) ==
  IF t.conv = "Half" THEN "half"
  ELSE IF t.conv = "Convert" \/ ScaledDx(width, scaled_width) = 16
       THEN "identity"
  ELSE "general"

C7_DispatchByWidthsOnly ==
  \A y \in DOMAIN task :
     (Started(y) /\ Implemented(view_rotate)) =>
        ActualPath(task[y]) = ClaimedPath

(***************************************************************************)
(* C8.  For ROTATE_0 and MIRROR_ROTATE_0, destination row y is converted   *)
(* from luma row r = floor(y * height / scaled_height), 0 <= r <= height-1,*)
(* non-decreasing in y, and from chroma row floor(r / 2) (4:2:0) or r      *)
(* (4:2:2); no sample of any other source row contributes to row y.        *)
(***************************************************************************)
TopDown == view_rotate \in {"ROTATE_0", "MIRROR_ROTATE_0"}

LumaRow(y) == (y * frame.h) \div scaled_height

ChromaRow(y) == IF fmt = "YV12" THEN LumaRow(y) \div 2 ELSE LumaRow(y)

\* The row pointers of iteration y are those of the claimed rows.
RowPointersAsClaimed(y) ==
  /\ task[y].scaled_y = LumaRow(y)
  /\ LumaRow(y) \in 0 .. (frame.h - 1)
  /\ task[y].y_ptr = y_buf + LumaRow(y) * y_pitch
  /\ task[y].u_ptr = u_buf + ChromaRow(y) * uv_pitch
  /\ task[y].v_ptr = v_buf + ChromaRow(y) * uv_pitch
  /\ \A y2 \in DOMAIN task :
        (y2 < y /\ Started(y2)) => task[y2].scaled_y <= task[y].scaled_y

\* Whether the value read by rd reaches the pixel: the next luma sample
\* does only when it is blended in.
Contributes(rd) ==
  \/ rd[1] # "y1"
  \/ task[rd[2]].conv = "Half"
  \/ /\ task[rd[2]].conv = "Scale"
     /\ Shr(ScaledX(width, scaled_width, rd[3]) % 16, 2) # 0

\* rd reads a sample (not padding, not outside the plane) of a row other
\* than the claimed one.
FromOtherRow(rd) ==
  LET a == rd[4] + rd[5]
  IN IF rd[1] \in {"y0", "y1"}
     THEN /\ a \in DOMAIN y_plane
          /\ a % y_pitch < frame.w
          /\ a \div y_pitch # LumaRow(rd[2])
     ELSE /\ a \in DOMAIN u_plane
          /\ a % uv_pitch < ChromaWidth(frame.w)
          /\ a \div uv_pitch # ChromaRow(rd[2])

TopDownRowPointers ==
  \A y \in DOMAIN task : (TopDown /\ Started(y)) => RowPointersAsClaimed(y)

C8_TopDownRowSelection ==
  /\ TopDownRowPointers
  /\ TopDown => \A rd \in reads : Contributes(rd) => ~FromOtherRow(rd)

HalfCase == width % 2 = 0 /\ 2 * scaled_width = width

BothOut == 1 .. Min(Len(half_out), Len(scale_out))

Channels == 1 .. 3

\* y[2x + 1] - y[2x] for the pixel pair of entry k (column x = k - 1).
PairGap(k) == y_plane[2 * (k - 1) + 1] - y_plane[2 * (k - 1)]

C3_HalfMatchesGeneralWithin2 ==
  HalfCase =>
     \A k \in BothOut, c \in Channels :
        Abs(half_out[k].px.bytes[c] - scale_out[k].px.bytes[c]) <= 2

\* As amended: both converters read chroma sample x and luma sample 2x; the
\* general converter does not blend at this ratio, the half-rate converter
\* averages the pair, so each sum handed to clip differs by exactly
\* 298 * floor((y[2x+1] - y[2x]) / 2); for -2 <= y[2x+1] - y[2x] <= 3 the
\* table indexes differ by at most 2, and so do the channels whenever both
\* indexes are inside the table.
C3_HalfVersusGeneral ==
  HalfCase =>
     \A k \in BothOut :
        LET h == half_out[k]
            s == scale_out[k]
        IN /\ h.i.u = s.i.u /\ h.i.v = s.i.v /\ h.i.y0 = s.i.y0
           /\ s.frac = 0
           /\ \A c \in Channels :
                 /\ h.px.sum[c] = s.px.sum[c] + 298 * Shr(PairGap(k), 1)
                 /\ PairGap(k) \in (0 - 2) .. 3 =>
                      /\ Abs(h.px.index[c] - s.px.index[c]) <= 2
                      /\ (InTable(h.px.index[c]) /\ InTable(s.px.index[c]))
                           => Abs(h.px.bytes[c] - s.px.bytes[c]) <= 2

\* The second pixel of a 4 -> 2 row whose luma pair differs by 3: the two
\* converters disagree, within the tolerance.
C3_Witness ==
  /\ HalfCase
  /\ width = 4
  /\ 2 \in BothOut
  /\ PairGap(2) = 3
  /\ \E c \in Channels :
        /\ InTable(half_out[2].px.index[c])
        /\ InTable(scale_out[2].px.index[c])
        /\ Abs(half_out[2].px.bytes[c] - scale_out[2].px.bytes[c]) = 2

(***************************************************************************)
(* C4.  For all Y, U, V in 0..255 each sum handed to clip by the row       *)
(* converters has table index (value >> 8) + 128 in [0, 511], and every    *)
(* output channel is value >> 8 clamped to [0, 255].                       *)
(***************************************************************************)
Produced == {half_out[k].px : k \in 1 .. Len(half_out)} \cup
            {scale_out[k].px : k \in 1 .. Len(scale_out)}

C4_ClipIndexInsideTable ==
  \A px \in Produced, c \in Channels :
     /\ px.index[c] \in 0 .. 511
     /\ px.bytes[c] = Clamp(Shr(px.sum[c], 8))

(***************************************************************************)
(* C6.  For every 8.8 value v with -128 <= v >> 8 <= 383, clip(v) is       *)
(* clamp(round(v / 256), 0, 255), round being rounding to the nearest      *)
(* integer.                                                                *)
(***************************************************************************)
InTableRange(v) == Shr(v, 8) >= 0 - 128 /\ Shr(v, 8) <= 383

\* The integers nearest to v / 256 (two of them when v / 256 is halfway).
Nearest(v) ==
  LET lo == Shr(v, 8)
      r  == v - 256 * lo
  IN IF r < 128 THEN {lo} ELSE IF r > 128 THEN {lo + 1} ELSE {lo, lo + 1}

C6_ClipRoundsToNearest ==
  (clip_out # NoValue /\ InTableRange(clip_in)) =>
     clip_out \in {Clamp(n) : n \in Nearest(clip_in)}

\* As amended: clip truncates, clip(v) = clamp(floor(v / 256), 0, 255).
C6_ClipTruncates ==
  (clip_out # NoValue /\ InTableRange(clip_in)) =>
     clip_out = Clamp(Shr(clip_in, 8))

\* 200 / 256 is nearer to 1; clip returns 0.
C6_Witness == clip_in = 200 /\ clip_out = 0

(***************************************************************************)
(* C9.  In ScaleYV12ToRGB32Row with width > 0 and scaled_width > 0, for    *)
(* every column x: scaled_x >> 4 is in [0, width - 1], (scaled_x >> 4) + 1 *)
(* is in [1, width], and scaled_x >> 5 is in [0, ceil(width / 2) - 1].     *)
(***************************************************************************)
C9_GeneralRowIndexes ==
  (width > 0 /\ scaled_width > 0) =>
     \A k \in 1 .. Len(scale_out) :
        LET i == scale_out[k].i
        IN /\ i.y0 \in 0 .. (width - 1)
           /\ i.y1 \in 1 .. width
           /\ i.u \in 0 .. (CeilHalf(width) - 1)
           /\ i.v \in 0 .. (CeilHalf(width) - 1)

\* The last column of an upscaled row blends in the sample one past the
\* row, and a chroma read reaches the last chroma sample of an odd width.
C9_Witness ==
  /\ Len(scale_out) = scaled_width
  /\ scale_out[scaled_width].i.y1 = width
  /\ scale_out[scaled_width].frac # 0
  /\ width % 2 = 1
  /\ scale_out[scaled_width].i.u = CeilHalf(width) - 1

(***************************************************************************)
(* C11.  For ROTATE_180, MIRROR_ROTATE_0 and MIRROR_ROTATE_180 every Y, U  *)
(* and V sample read lies inside its plane: luma row in [0, height - 1],   *)
(* chroma row in [0, chroma height - 1], chroma column in                  *)
(* [0, ceil(width / 2) - 1], luma column in [0, width - 1], except that    *)
(* the next-sample read may be at most one column outside the row.         *)
(***************************************************************************)
Reversed ==
  view_rotate \in {"ROTATE_180", "MIRROR_ROTATE_0", "MIRROR_ROTATE_180"}

\* The plane row a row pointer points into, and the column of a read
\* relative to the start of that row.
ReadRow(rd, pitch) == rd[4] \div pitch

ReadCol(rd, pitch) == (rd[4] % pitch) + rd[5]

ReadInsidePlane(rd) ==
  CASE rd[1] = "y0" ->
         /\ ReadRow(rd, y_pitch) \in 0 .. (frame.h - 1)
         /\ ReadCol(rd, y_pitch) \in 0 .. (frame.w - 1)
    [] rd[1] = "y1" ->
         /\ ReadRow(rd, y_pitch) \in 0 .. (frame.h - 1)
         /\ ReadCol(rd, y_pitch) \in (0 - 1) .. frame.w
    [] OTHER ->
         /\ ReadRow(rd, uv_pitch) \in 0 .. (ChromaHeight(fmt, frame.h) - 1)
         /\ ReadCol(rd, uv_pitch) \in 0 .. (ChromaWidth(frame.w) - 1)

C11_ReversedReadsInsidePlanes ==
  Reversed => \A rd \in reads : ReadInsidePlane(rd)

(***************************************************************************)
(* C12.  Every PingSender created by PingManager::OnUpdateComplete is      *)
(* eventually deleted, and deleted exactly once, by its own completion     *)
(* callback, whether the ping URL is valid or not, given that a started    *)
(* fetch eventually completes; no PingSender stays allocated forever.      *)
(***************************************************************************)
Allocated(s) == ping_senders[s].st = "allocated"

Deleted(s) == ping_senders[s].st = "deleted" /\ ping_senders[s].deletes = 1

C12_EveryPingSenderDeletedOnce ==
  /\ [](\A s \in Senders : ping_senders[s].deletes <= 1)
  /\ \A s \in Senders : Allocated(s) ~> Deleted(s)

====
